---- MODULE Spec2Model ----
(***************************************************************************)
(* The repository layer of game-tracker (interfaces/repositories.go) over  *)
(* the SQL driver adapter (infrastructure/postgresqlhandler.go).           *)
(*                                                                         *)
(* The four tables are sequences of rows in heap (insertion) order.  Every *)
(* repository method is an operator that computes, from the tables and the *)
(* inputs, what the method returns, which cursors it opens and closes, and *)
(* the tables it leaves behind.  A driver call may fail: `fail` names the  *)
(* one statement site (and, for a site inside a loop, the iteration) whose *)
(* driver call returns an error during the operation.                      *)
(***************************************************************************)
EXTENDS Integers, Sequences, FiniteSets, TLC

VARIABLES players, users, libraries, games, serial, pre, last, hyd, stored

vars == <<players, users, libraries, games, serial, pre, last, hyd, stored>>

----------------------------------------------------------------------------
(* Bounds of the model and the input domains *)

MaxPlayers == 2
MaxUsers == 1
MaxLibraries == 1
MaxGames == 2

PlayerNames == {"alice", "bob"}
UserNames == {"alice_u"}
Infos == {"hi", "bye"}
GameData == { [Name |-> "Chess", Producer |-> "X", Value |-> <<57, 46, 57, 57>>],
              [Name |-> "Go", Producer |-> "Y", Value |-> <<>>] }

----------------------------------------------------------------------------
(* Errors and zero values *)

Nil == "nil"
DriverErr == "driver error"
RowsClosedErr == "sql: Rows are closed"
MismatchErr == "Player name does not match Id"

ZeroPlayer == [Id |-> 0, Name |-> ""]
ZeroUser == [Id |-> 0, Name |-> "", Player |-> ZeroPlayer, PersonalInfo |-> ""]
ZeroGame == [Id |-> 0, LibraryId |-> 0, Name |-> "", Producer |-> "", Value |-> <<>>]
ZeroLibrary == [Id |-> 0, User |-> ZeroUser, Games |-> <<>>]

NoFail == <<"none", 0>>

(* fail names statement site `site` (a site that runs once per operation) *)
FailsAt(fail, site) == fail[1] = site

(* fail names the k-th execution of statement site `site` *)
FailsAtK(fail, site, k) == fail = <<site, k>>

----------------------------------------------------------------------------
(* The driver: PostgresqlHandler and PostgresqlRow *)

NilRows == "nil *sql.Rows"

(* LIMIT 1 of a WHERE selection (SelectSeq keeps the table's heap order) *)
Limit1(rows) == IF rows = <<>> THEN <<>> ELSE <<rows[1]>>

(* Query: on a driver error the cursor returned wraps a nil *sql.Rows *)
Query(rows, failed) ==
  IF failed THEN [row |-> [Rows |-> NilRows], err |-> DriverErr]
            ELSE [row |-> [Rows |-> rows], err |-> Nil]

(* Execute / QueryRow: the statement either fails as a whole or takes effect *)
Execute(failed) == IF failed THEN DriverErr ELSE Nil

(* PostgresqlRow.Next on a cursor positioned before row `pos`: dereferences
   r.Rows, so a cursor of a failed Query panics *)
RowNext(row, pos) ==
  IF row.Rows = NilRows THEN [panic |-> TRUE, ok |-> FALSE]
  ELSE [panic |-> FALSE, ok |-> pos <= Len(row.Rows)]

(* PostgresqlRow.Scan of row `pos`: after Next returned false the rows are
   closed and Scan reports it; a present row scans unless the driver fails *)
RowScan(row, pos, failed) ==
  IF pos > Len(row.Rows) THEN [err |-> RowsClosedErr, val |-> <<>>]
  ELSE IF failed THEN [err |-> DriverErr, val |-> <<>>]
  ELSE [err |-> Nil, val |-> row.Rows[pos]]

(* Cursor accounting of one method: cursors opened by a successful Query,
   cursors closed, and Close calls made on a cursor of a failed Query *)
NoCursors == [opened |-> 0, closed |-> 0, closedInvalid |-> 0]
OneClosed == [opened |-> 1, closed |-> 1, closedInvalid |-> 0]
AddCursors(a, b) ==
  [opened |-> a.opened + b.opened, closed |-> a.closed + b.closed,
   closedInvalid |-> a.closedInvalid + b.closedInvalid]

(* `defer row.Close()` on the cursor of query result q, run when the method
   returns or panics *)
DeferClose(q) ==
  IF q.row.Rows = NilRows THEN [opened |-> 0, closed |-> 0, closedInvalid |-> 1]
  ELSE OneClosed

(* The shape shared by UserExisted, playerExisted, NameMatchesId and
   libraryExisted: defer row.Close(); return row.Next(), err -- with no
   check of err before the cursor is used *)
ExistsResult(q) ==
  LET n == RowNext(q.row, 1)
  IN [ent |-> n.ok, err |-> q.err, panic |-> n.panic, cur |-> DeferClose(q)]

----------------------------------------------------------------------------
(* DbPlayerRepo *)

(* playerExisted with a WHERE clause that selects no row *)
playerExistedNoRows(pl, playerName, fail) ==
  ExistsResult(Query(<<>>, FailsAt(fail, "playerExisted.Query")))

playerExisted(pl, playerName, fail) ==
  ExistsResult(Query(Limit1(SelectSeq(pl, LAMBDA r : r.player_name = playerName)),
                     FailsAt(fail, "playerExisted.Query")))

(* NameMatchesId that compares the id alone *)
NameMatchesIdByIdOnly(pl, playerName, id, fail) ==
  ExistsResult(Query(Limit1(SelectSeq(pl, LAMBDA r : r.id = id)),
                     FailsAt(fail, "NameMatchesId.Query")))

NameMatchesId(pl, playerName, id, fail) ==
  ExistsResult(Query(Limit1(SelectSeq(pl, LAMBDA r : r.id = id /\ r.player_name = playerName)),
                     FailsAt(fail, "NameMatchesId.Query")))

(* Store: insert the player unless a row of that name exists *)
PlayerStore(pl, ser, player, fail) ==
  LET e == playerExisted(pl, player.Name, fail)
      same == [players |-> pl, serial |-> ser]
  IN IF e.panic THEN [err |-> Nil, panic |-> TRUE, cur |-> e.cur] @@ same
     ELSE IF e.err # Nil THEN [err |-> e.err, panic |-> FALSE, cur |-> e.cur] @@ same
     ELSE IF ~e.ent THEN
       LET x == Execute(FailsAt(fail, "players.Insert"))
       IN IF x # Nil THEN [err |-> x, panic |-> FALSE, cur |-> e.cur] @@ same
          ELSE [err |-> Nil, panic |-> FALSE, cur |-> e.cur,
                players |-> Append(pl, [id |-> ser + 1, player_name |-> player.Name]),
                serial |-> ser + 1]
     ELSE [err |-> Nil, panic |-> FALSE, cur |-> e.cur] @@ same

(* FindById that never looks at the error of Scan *)
PlayerFindByIdUnchecked(pl, id, fail) ==
  LET q == Query(Limit1(SelectSeq(pl, LAMBDA r : r.id = id)),
                 FailsAt(fail, "PlayerFindById.Query"))
  IN IF q.err # Nil
     THEN [ent |-> ZeroPlayer, err |-> q.err, panic |-> FALSE, cur |-> NoCursors]
     ELSE LET s == RowScan(q.row, 1, FailsAt(fail, "PlayerFindById.Scan"))
          IN [ent |-> [Id |-> id, Name |-> IF s.err # Nil THEN "" ELSE s.val.player_name],
              err |-> Nil, panic |-> FALSE, cur |-> DeferClose(q)]

PlayerFindById(pl, id, fail) ==
  LET q == Query(Limit1(SelectSeq(pl, LAMBDA r : r.id = id)),
                 FailsAt(fail, "PlayerFindById.Query"))
  IN IF q.err # Nil
     THEN [ent |-> ZeroPlayer, err |-> q.err, panic |-> FALSE, cur |-> NoCursors]
     ELSE LET s == RowScan(q.row, 1, FailsAt(fail, "PlayerFindById.Scan"))
          IN IF s.err # Nil
             THEN [ent |-> ZeroPlayer, err |-> s.err, panic |-> FALSE, cur |-> DeferClose(q)]
             ELSE [ent |-> [Id |-> id, Name |-> s.val.player_name], err |-> Nil,
                   panic |-> FALSE, cur |-> DeferClose(q)]

----------------------------------------------------------------------------
(* DbUserRepo *)

(* Store: validate the player reference, insert the user row, then store
   the player.  `ser` is the record of the tables' id sequences. *)
UserStore(pl, us, ser, user, fail) ==
  LET m == NameMatchesId(pl, user.Player.Name, user.Player.Id, fail)
      same == [players |-> pl, users |-> us, serial |-> ser]
  IN IF m.panic THEN [id |-> 0, err |-> Nil, panic |-> TRUE, cur |-> m.cur] @@ same
     ELSE IF m.err # Nil THEN [id |-> 0, err |-> m.err, panic |-> FALSE, cur |-> m.cur] @@ same
     ELSE IF ~m.ent THEN [id |-> 0, err |-> MismatchErr, panic |-> FALSE, cur |-> m.cur] @@ same
     ELSE
       LET x == Execute(FailsAt(fail, "users.Insert"))
       IN IF x # Nil THEN [id |-> 0, err |-> x, panic |-> FALSE, cur |-> m.cur] @@ same
          ELSE
            LET id == ser.users + 1
                us2 == Append(us, [id |-> id, user_name |-> user.Name,
                                   player_id |-> user.Player.Id,
                                   personal_info |-> user.PersonalInfo])
                p == PlayerStore(pl, ser.players, user.Player, fail)
            IN [id |-> id, err |-> p.err, panic |-> p.panic,
                cur |-> AddCursors(m.cur, p.cur),
                players |-> p.players, users |-> us2,
                serial |-> [ser EXCEPT !.users = id, !.players = p.serial]]

(* Remove: DELETE by id; the empty `if err == sql.ErrNoRows` changes nothing *)
UserRemove(us, user, fail) ==
  LET x == Execute(FailsAt(fail, "users.Delete"))
  IN IF x # Nil THEN [err |-> x, users |-> us]
     ELSE [err |-> Nil, users |-> SelectSeq(us, LAMBDA r : r.id # user.Id)]

(* FindById once the users row is scanned into s: the nested player p *)
UserFindPlayer(id, q, s, p) ==
  IF p.err # Nil
  THEN [ent |-> ZeroUser, err |-> p.err, panic |-> FALSE,
        cur |-> AddCursors(DeferClose(q), p.cur)]
  ELSE [ent |-> [Id |-> id, Name |-> s.val.user_name, Player |-> p.ent,
                 PersonalInfo |-> s.val.personal_info],
        err |-> Nil, panic |-> FALSE, cur |-> AddCursors(DeferClose(q), p.cur)]

(* FindById once the query returned cursor q: the Scan s of its first row *)
UserFindScan(pl, id, q, s, fail) ==
  IF s.err # Nil
  THEN [ent |-> ZeroUser, err |-> s.err, panic |-> FALSE, cur |-> DeferClose(q)]
  ELSE UserFindPlayer(id, q, s, PlayerFindById(pl, s.val.player_id, fail))

(* FindById from the result q of its query *)
UserFindQuery(pl, id, q, fail) ==
  IF q.err # Nil
  THEN [ent |-> ZeroUser, err |-> q.err, panic |-> FALSE, cur |-> NoCursors]
  ELSE UserFindScan(pl, id, q, RowScan(q.row, 1, FailsAt(fail, "UserFindById.Scan")), fail)

UserFindById(us, pl, id, fail) ==
  UserFindQuery(pl, id, Query(Limit1(SelectSeq(us, LAMBDA r : r.id = id)),
                              FailsAt(fail, "UserFindById.Query")), fail)

UserExisted(us, userName, fail) ==
  ExistsResult(Query(Limit1(SelectSeq(us, LAMBDA r : r.user_name = userName)),
                     FailsAt(fail, "UserExisted.Query")))

SetInfo(r, id, info) == IF r.id = id THEN [r EXCEPT !.personal_info = info] ELSE r

StoreInfo(us, user, info, fail) ==
  LET x == Execute(FailsAt(fail, "StoreInfo.Update"))
  IN IF x # Nil THEN [err |-> x, users |-> us]
     ELSE [err |-> Nil, users |-> [i \in DOMAIN us |-> SetInfo(us[i], user.Id, info)]]

LoadInfo(us, user, fail) ==
  LET q == Query(SelectSeq(us, LAMBDA r : r.id = user.Id), FailsAt(fail, "LoadInfo.Query"))
  IN IF q.err # Nil
     THEN [ent |-> "", err |-> q.err, panic |-> FALSE, cur |-> NoCursors]
     ELSE LET s == RowScan(q.row, 1, FailsAt(fail, "LoadInfo.Scan"))
          IN [ent |-> IF s.err # Nil THEN "" ELSE s.val.personal_info,
              err |-> s.err, panic |-> FALSE, cur |-> DeferClose(q)]

----------------------------------------------------------------------------
(* DbGameRepo *)

(* Store that binds Name and Producer to each other's column *)
GameStoreSwapped(gm, ser, game, fail) ==
  LET x == Execute(FailsAt(fail, "games.Insert"))
  IN IF x # Nil THEN [id |-> 0, err |-> x, games |-> gm, serial |-> ser]
     ELSE [id |-> ser + 1, err |-> Nil,
           games |-> Append(gm, [id |-> ser + 1, library_id |-> game.LibraryId,
                                 game_name |-> game.Producer, producer |-> game.Name,
                                 value |-> game.Value]),
           serial |-> ser + 1]

GameStore(gm, ser, game, fail) ==
  LET x == Execute(FailsAt(fail, "games.Insert"))
  IN IF x # Nil THEN [id |-> 0, err |-> x, games |-> gm, serial |-> ser]
     ELSE [id |-> ser + 1, err |-> Nil,
           games |-> Append(gm, [id |-> ser + 1, library_id |-> game.LibraryId,
                                 game_name |-> game.Name, producer |-> game.Producer,
                                 value |-> game.Value]),
           serial |-> ser + 1]

(* Remove that reports a DELETE of no row as an error *)
GameRemoveStrict(gm, game, fail) ==
  LET x == Execute(FailsAt(fail, "games.Delete"))
  IN IF x # Nil THEN [err |-> x, games |-> gm]
     ELSE IF SelectSeq(gm, LAMBDA r : r.id = game.Id) = <<>>
     THEN [err |-> "sql: no rows in result set", games |-> gm]
     ELSE [err |-> Nil, games |-> SelectSeq(gm, LAMBDA r : r.id # game.Id)]

GameRemove(gm, game, fail) ==
  LET x == Execute(FailsAt(fail, "games.Delete"))
  IN IF x # Nil THEN [err |-> x, games |-> gm]
     ELSE [err |-> Nil, games |-> SelectSeq(gm, LAMBDA r : r.id # game.Id)]

(* FindById; k counts the calls made by one operation (the caller's loop) *)
GameFindById(gm, id, fail, k) ==
  LET q == Query(Limit1(SelectSeq(gm, LAMBDA r : r.id = id)),
                 FailsAtK(fail, "GameFindById.Query", k))
  IN IF q.err # Nil
     THEN [ent |-> ZeroGame, err |-> q.err, panic |-> FALSE, cur |-> NoCursors]
     ELSE LET s == RowScan(q.row, 1, FailsAtK(fail, "GameFindById.Scan", k))
          IN IF s.err # Nil
             THEN [ent |-> ZeroGame, err |-> s.err, panic |-> FALSE, cur |-> DeferClose(q)]
             ELSE [ent |-> [Id |-> id, LibraryId |-> s.val.library_id,
                            Name |-> s.val.game_name, Producer |-> s.val.producer,
                            Value |-> s.val.value],
                   err |-> Nil, panic |-> FALSE, cur |-> DeferClose(q)]

----------------------------------------------------------------------------
(* DbLibraryRepo *)

LibraryStore(lb, ser, library, fail) ==
  LET x == Execute(FailsAt(fail, "libraries.Insert"))
  IN IF x # Nil THEN [id |-> 0, err |-> x, libraries |-> lb, serial |-> ser]
     ELSE [id |-> ser + 1, err |-> Nil,
           libraries |-> Append(lb, [id |-> ser + 1, user_id |-> library.User.Id]),
           serial |-> ser + 1]

LibraryRemove(lb, library, fail) ==
  LET x == Execute(FailsAt(fail, "libraries.Delete"))
  IN IF x # Nil THEN [err |-> x, libraries |-> lb]
     ELSE [err |-> Nil, libraries |-> SelectSeq(lb, LAMBDA r : r.id # library.Id)]

(* libraryExisted: the Query error is dropped (row, _ := ...) *)
libraryExisted(lb, id, fail) ==
  LET e == ExistsResult(Query(Limit1(SelectSeq(lb, LAMBDA r : r.id = id)),
                              FailsAt(fail, "libraryExisted.Query")))
  IN [e EXCEPT !.err = Nil]

(* FindById once the user u is fetched: return its error, or go on with
   library := usecases.Library{Id: id, User: user} *)
LibraryFindUser(id, q, u) ==
  IF u.err # Nil
  THEN [done |-> TRUE, ent |-> ZeroLibrary, err |-> u.err,
        cur |-> AddCursors(DeferClose(q), u.cur)]
  ELSE [done |-> FALSE, ent |-> [Id |-> id, User |-> u.ent, Games |-> <<>>],
        err |-> Nil, cur |-> AddCursors(DeferClose(q), u.cur)]

(* row.Scan(&userId) with its error discarded: userId stays 0 on an error *)
LibraryScanUserId(s) == IF s.err # Nil THEN 0 ELSE s.val.user_id

(* FindById from the result q of the libraries query *)
LibraryFindQuery(us, pl, id, q, fail) ==
  IF q.err # Nil
  THEN [done |-> TRUE, ent |-> ZeroLibrary, err |-> q.err, cur |-> NoCursors]
  ELSE LibraryFindUser(id, q,
         UserFindById(us, pl,
           LibraryScanUserId(RowScan(q.row, 1, FailsAt(fail, "LibraryFindById.Scan"))),
           fail))

(* FindById up to the games query: the libraries row and the user.
   done = TRUE when the method has returned. *)
LibraryFindHead(lb, us, pl, id, fail) ==
  LibraryFindQuery(us, pl, id,
                   Query(Limit1(SelectSeq(lb, LAMBDA r : r.id = id)),
                         FailsAt(fail, "LibraryFindById.Query")), fail)

(* SELECT id FROM games WHERE library_id = $1, and the return on its error *)
LibraryGamesQuery(gm, library, fail) ==
  LET q == Query(SelectSeq(gm, LAMBDA r : r.library_id = library.Id),
                 FailsAt(fail, "LibraryFindById.GamesQuery"))
  IN IF q.err # Nil
     THEN [done |-> TRUE, ent |-> library, err |-> q.err, cur |-> NoCursors, row |-> q.row]
     ELSE [done |-> FALSE, ent |-> library, err |-> Nil, cur |-> DeferClose(q), row |-> q.row]

(* The loop body putting the fetched game in front *)
LibraryPrependGame(library, g) ==
  IF g.err # Nil
  THEN [done |-> TRUE, ent |-> library, err |-> g.err, cur |-> g.cur]
  ELSE [done |-> FALSE, ent |-> [library EXCEPT !.Games = <<g.ent>> \o @],
        err |-> Nil, cur |-> g.cur]

(* The loop body skipping a game that is not found *)
LibrarySkipMissingGame(library, g) ==
  IF g.err = RowsClosedErr
  THEN [done |-> FALSE, ent |-> library, err |-> Nil, cur |-> g.cur]
  ELSE IF g.err # Nil
  THEN [done |-> TRUE, ent |-> library, err |-> g.err, cur |-> g.cur]
  ELSE [done |-> FALSE, ent |-> [library EXCEPT !.Games = Append(@, g.ent)],
        err |-> Nil, cur |-> g.cur]

(* The loop body once game g is fetched: return its error, or append it *)
LibraryAppendGame(library, g) ==
  IF g.err # Nil
  THEN [done |-> TRUE, ent |-> library, err |-> g.err, cur |-> g.cur]
  ELSE [done |-> FALSE, ent |-> [library EXCEPT !.Games = Append(@, g.ent)],
        err |-> Nil, cur |-> g.cur]

(* The loop body once the game id is scanned into s *)
LibraryFetchScanned(gm, library, s, pos, fail) ==
  IF s.err # Nil
  THEN [done |-> TRUE, ent |-> library, err |-> s.err, cur |-> NoCursors]
  ELSE LibraryAppendGame(library, GameFindById(gm, s.val.id, fail, pos))

(* One turn of `for row.Next()`: scan the game id at cursor position pos,
   fetch that game from the games table as it is now, append it *)
LibraryFetchStep(gm, library, row, pos, fail) ==
  IF ~RowNext(row, pos).ok
  THEN [done |-> TRUE, ent |-> library, err |-> Nil, cur |-> NoCursors]
  ELSE LibraryFetchScanned(gm, library,
         RowScan(row, pos, FailsAtK(fail, "LibraryFindById.GameIdScan", pos)), pos, fail)

(* The loop from cursor position pos on, st being the turn at pos *)
RECURSIVE LibraryFetchFrom(_, _, _, _, _, _)
LibraryFetchFrom(gm, row, pos, cur, st, fail) ==
  IF st.done
  THEN [ent |-> st.ent, err |-> st.err, panic |-> FALSE, cur |-> AddCursors(cur, st.cur)]
  ELSE LibraryFetchFrom(gm, row, pos + 1, AddCursors(cur, st.cur),
                        LibraryFetchStep(gm, st.ent, row, pos + 1, fail), fail)

(* FindById from the games query q on *)
LibraryFindGames(gm, cur, q, fail) ==
  IF q.done
  THEN [ent |-> q.ent, err |-> q.err, panic |-> FALSE, cur |-> AddCursors(cur, q.cur)]
  ELSE LibraryFetchFrom(gm, q.row, 1, AddCursors(cur, q.cur),
                        LibraryFetchStep(gm, q.ent, q.row, 1, fail), fail)

(* FindById from the head h (the libraries row and the user) on *)
LibraryFindTail(gm, h, fail) ==
  IF h.done
  THEN [ent |-> h.ent, err |-> h.err, panic |-> FALSE, cur |-> h.cur]
  ELSE LibraryFindGames(gm, h.cur, LibraryGamesQuery(gm, h.ent, fail), fail)

LibraryFindById(lb, us, pl, gm, id, fail) ==
  LibraryFindTail(gm, LibraryFindHead(lb, us, pl, id, fail), fail)

----------------------------------------------------------------------------
(* The store and its callers *)

Tables == [players |-> players, users |-> users, libraries |-> libraries, games |-> games]

Idle == [pc |-> "idle"]
NoCall == [op |-> "none"]

(* An empty database with fresh id sequences, and no call made.  `stored`
   remembers, per kind and id, the entity a caller handed to a Store that
   succeeded, until a later call changes or deletes that row. *)
Init ==
  /\ players = <<>>
  /\ users = <<>>
  /\ libraries = <<>>
  /\ games = <<>>
  /\ serial = [players |-> 0, users |-> 0, libraries |-> 0, games |-> 0]
  /\ pre = Tables
  /\ last = NoCall
  /\ hyd = Idle
  /\ stored = {}

(* A database that already holds player alice and her user *)
InitSeeded ==
  /\ players = <<[id |-> 1, player_name |-> "alice"]>>
  /\ users \in { <<[id |-> 1, user_name |-> "alice_u", player_id |-> 1,
                    personal_info |-> "hi"]>>, <<>> }
  /\ libraries = <<>>
  /\ games = <<>>
  /\ serial = [players |-> 1, users |-> Len(users), libraries |-> 0, games |-> 0]
  /\ pre = Tables
  /\ last = NoCall
  /\ hyd = Idle
  /\ stored = {}

(* The sites of one operation, each failing at its first execution *)
Fails(sites) == {NoFail} \cup {<<s, 1>> : s \in sites}

(* The sites of a loop, failing at any of its first n executions *)
FailsK(sites, n) == {<<s, k>> : s \in sites, k \in 1..n}

PlayerFindSites == {"PlayerFindById.Query", "PlayerFindById.Scan"}
UserFindSites == {"UserFindById.Query", "UserFindById.Scan"} \cup PlayerFindSites
GameFindSites == {"GameFindById.Query", "GameFindById.Scan"}
LibraryFindSites ==
  {"LibraryFindById.Query", "LibraryFindById.Scan", "LibraryFindById.GamesQuery"}
    \cup UserFindSites

(* Ids a caller may ask for in a table whose sequence stands at n: 0, every
   id issued so far, and the next one *)
Ids(n) == 0..(n + 1)

(* The caller holds no unread result and may call *)
Ready == last = NoCall

(* A call: what it was, what it returned, and the tables it started from *)
Called(op, arg, fail, val, r) ==
  /\ pre' = Tables
  /\ last' = [op |-> op, arg |-> arg, fail |-> fail, val |-> val,
              err |-> r.err, panic |-> r.panic, cur |-> r.cur]

(* The caller takes the result *)
Return ==
  /\ last # NoCall
  /\ last' = NoCall
  /\ pre' = Tables
  /\ UNCHANGED <<players, users, libraries, games, serial, hyd, stored>>

(* The result of a method that opens no cursor and cannot panic *)
Plain(r) == [err |-> r.err, panic |-> FALSE, cur |-> NoCursors]

Forget(kind, id) == {e \in stored : ~(e.kind = kind /\ e.id = id)}

Remember(kind, id, ent) == Forget(kind, id) \cup {[kind |-> kind, id |-> id, ent |-> ent]}

DoPlayerStore ==
  /\ Ready
  /\ \E name \in PlayerNames, fail \in Fails({"playerExisted.Query", "players.Insert"}) :
    LET player == [Id |-> 0, Name |-> name]
        r == PlayerStore(players, serial.players, player, fail)
    IN /\ r.serial <= MaxPlayers
       /\ players' = r.players
       /\ serial' = [serial EXCEPT !.players = r.serial]
       /\ UNCHANGED <<users, libraries, games, hyd, stored>>
       /\ Called("PlayerStore", player, fail, 0, r)

DoPlayerFindById ==
  /\ Ready
  /\ \E id \in Ids(serial.players), fail \in Fails(PlayerFindSites) :
    /\ UNCHANGED <<players, users, libraries, games, serial, hyd, stored>>
    /\ LET r == PlayerFindById(players, id, fail)
       IN Called("PlayerFindById", id, fail, r.ent, r)

DoNameMatchesId ==
  /\ Ready
  /\ \E name \in PlayerNames, id \in Ids(serial.players), fail \in Fails({"NameMatchesId.Query"}) :
    /\ UNCHANGED <<players, users, libraries, games, serial, hyd, stored>>
    /\ LET r == NameMatchesId(players, name, id, fail)
       IN Called("NameMatchesId", [Id |-> id, Name |-> name], fail, r.ent, r)

DoUserStore ==
  /\ Ready
  /\ \E name \in UserNames, info \in Infos, pname \in PlayerNames, pid \in Ids(serial.players),
     fail \in Fails({"NameMatchesId.Query", "users.Insert", "playerExisted.Query",
                     "players.Insert"}) :
    LET user == [Id |-> 0, Name |-> name, Player |-> [Id |-> pid, Name |-> pname],
                 PersonalInfo |-> info]
        r == UserStore(players, users, serial, user, fail)
    IN /\ r.serial.users <= MaxUsers
       /\ r.serial.players <= MaxPlayers
       /\ players' = r.players
       /\ users' = r.users
       /\ serial' = r.serial
       /\ stored' = IF r.err = Nil /\ ~r.panic THEN Remember("user", r.id, user) ELSE stored
       /\ UNCHANGED <<libraries, games, hyd>>
       /\ Called("UserStore", user, fail, r.id, r)

DoUserRemove ==
  /\ Ready
  /\ \E id \in Ids(serial.users), fail \in Fails({"users.Delete"}) :
    LET r == UserRemove(users, [Id |-> id], fail)
    IN /\ users' = r.users
       /\ stored' = IF r.err = Nil THEN Forget("user", id) ELSE stored
       /\ UNCHANGED <<players, libraries, games, serial, hyd>>
       /\ Called("UserRemove", id, fail, 0, Plain(r))

DoUserFindById ==
  /\ Ready
  /\ \E id \in Ids(serial.users), fail \in Fails(UserFindSites) :
    /\ UNCHANGED <<players, users, libraries, games, serial, hyd, stored>>
    /\ LET r == UserFindById(users, players, id, fail)
       IN Called("UserFindById", id, fail, r.ent, r)

DoUserExisted ==
  /\ Ready
  /\ \E name \in UserNames, fail \in Fails({"UserExisted.Query"}) :
    /\ UNCHANGED <<players, users, libraries, games, serial, hyd, stored>>
    /\ LET r == UserExisted(users, name, fail)
       IN Called("UserExisted", name, fail, r.ent, r)

DoStoreInfo ==
  /\ Ready
  /\ \E id \in Ids(serial.users), info \in Infos, fail \in Fails({"StoreInfo.Update"}) :
    LET r == StoreInfo(users, [Id |-> id], info, fail)
    IN /\ users' = r.users
       /\ stored' = IF r.err = Nil THEN Forget("user", id) ELSE stored
       /\ UNCHANGED <<players, libraries, games, serial, hyd>>
       /\ Called("StoreInfo", [Id |-> id, Info |-> info], fail, 0, Plain(r))

DoLoadInfo ==
  /\ Ready
  /\ \E id \in Ids(serial.users), fail \in Fails({"LoadInfo.Query", "LoadInfo.Scan"}) :
    /\ UNCHANGED <<players, users, libraries, games, serial, hyd, stored>>
    /\ LET r == LoadInfo(users, [Id |-> id], fail)
       IN Called("LoadInfo", id, fail, r.ent, r)

(* INSERT INTO libraries by any caller *)
LibraryStoreBy(uid, fail) ==
  LET r == LibraryStore(libraries, serial.libraries, [User |-> [Id |-> uid]], fail)
  IN /\ r.serial <= MaxLibraries
     /\ libraries' = r.libraries
     /\ serial' = [serial EXCEPT !.libraries = r.serial]
     /\ UNCHANGED <<players, users, games, stored>>

DoLibraryStore ==
  /\ Ready
  /\ \E uid \in Ids(serial.users), fail \in Fails({"libraries.Insert"}) :
    LET r == LibraryStore(libraries, serial.libraries, [User |-> [Id |-> uid]], fail)
    IN /\ LibraryStoreBy(uid, fail)
       /\ hyd' = hyd
       /\ Called("LibraryStore", uid, fail, r.id, Plain(r))

(* DELETE FROM libraries that also deletes the library's games *)
LibraryRemoveCascadeBy(id, fail) ==
  /\ libraries' = LibraryRemove(libraries, [Id |-> id], fail).libraries
  /\ games' = SelectSeq(games, LAMBDA r : r.library_id # id)
  /\ UNCHANGED <<players, users, serial, stored>>

(* DELETE FROM libraries by any caller *)
LibraryRemoveBy(id, fail) ==
  /\ libraries' = LibraryRemove(libraries, [Id |-> id], fail).libraries
  /\ UNCHANGED <<players, users, games, serial, stored>>

DoLibraryRemove ==
  /\ Ready
  /\ \E id \in Ids(serial.libraries), fail \in Fails({"libraries.Delete"}) :
    /\ LibraryRemoveBy(id, fail)
    /\ hyd' = hyd
    /\ Called("LibraryRemove", id, fail, 0, Plain(LibraryRemove(libraries, [Id |-> id], fail)))

DoLibraryFindById ==
  /\ Ready
  /\ \E id \in Ids(serial.libraries),
     fail \in Fails(LibraryFindSites)
                \cup FailsK({"LibraryFindById.GameIdScan"} \cup GameFindSites, Len(games)) :
    /\ UNCHANGED <<players, users, libraries, games, serial, hyd, stored>>
    /\ LET r == LibraryFindById(libraries, users, players, games, id, fail)
       IN Called("LibraryFindById", id, fail, r.ent, r)

DolibraryExisted ==
  /\ Ready
  /\ \E id \in Ids(serial.libraries), fail \in Fails({"libraryExisted.Query"}) :
    /\ UNCHANGED <<players, users, libraries, games, serial, hyd, stored>>
    /\ LET r == libraryExisted(libraries, id, fail)
       IN Called("libraryExisted", id, fail, r.ent, r)

GameInput(lib, d) ==
  [Id |-> 0, LibraryId |-> lib, Name |-> d.Name, Producer |-> d.Producer, Value |-> d.Value]

(* INSERT INTO games by any caller *)
GameStoreBy(game, fail) ==
  LET r == GameStore(games, serial.games, game, fail)
  IN /\ r.serial <= MaxGames
     /\ games' = r.games
     /\ serial' = [serial EXCEPT !.games = r.serial]
     /\ stored' = IF r.err = Nil THEN Remember("game", r.id, game) ELSE stored
     /\ UNCHANGED <<players, users, libraries>>

DoGameStore ==
  /\ Ready
  /\ \E lib \in Ids(serial.libraries) \ {0}, d \in GameData, fail \in Fails({"games.Insert"}) :
    LET r == GameStore(games, serial.games, GameInput(lib, d), fail)
    IN /\ GameStoreBy(GameInput(lib, d), fail)
       /\ hyd' = hyd
       /\ Called("GameStore", GameInput(lib, d), fail, r.id, Plain(r))

(* DELETE FROM games by any caller *)
GameRemoveBy(id, fail) ==
  LET r == GameRemove(games, [Id |-> id], fail)
  IN /\ games' = r.games
     /\ stored' = IF r.err = Nil THEN Forget("game", id) ELSE stored
     /\ UNCHANGED <<players, users, libraries, serial>>

DoGameRemove ==
  /\ Ready
  /\ \E id \in Ids(serial.games), fail \in Fails({"games.Delete"}) :
    /\ GameRemoveBy(id, fail)
    /\ hyd' = hyd
    /\ Called("GameRemove", id, fail, 0, Plain(GameRemove(games, [Id |-> id], fail)))

DoGameFindById ==
  /\ Ready
  /\ \E id \in Ids(serial.games), fail \in Fails(GameFindSites) :
    /\ UNCHANGED <<players, users, libraries, games, serial, hyd, stored>>
    /\ LET r == GameFindById(games, id, fail, 1)
       IN Called("GameFindById", id, fail, r.ent, r)

(* Every repository method, called one at a time on a database that starts
   empty *)
Next ==
  \/ DoPlayerStore
  \/ DoPlayerFindById
  \/ DoNameMatchesId
  \/ DoUserStore
  \/ DoUserRemove
  \/ DoUserFindById
  \/ DoUserExisted
  \/ DoStoreInfo
  \/ DoLoadInfo
  \/ DoLibraryStore
  \/ DoLibraryRemove
  \/ DoLibraryFindById
  \/ DolibraryExisted
  \/ DoGameStore
  \/ DoGameRemove
  \/ DoGameFindById
  \/ Return

Spec == Init /\ [][Next]_vars

(* The player, user and game repositories on a database that starts empty *)
NextEntities ==
  \/ DoPlayerStore
  \/ DoPlayerFindById
  \/ DoNameMatchesId
  \/ DoUserStore
  \/ DoUserRemove
  \/ DoUserFindById
  \/ DoUserExisted
  \/ DoStoreInfo
  \/ DoLoadInfo
  \/ DoGameStore
  \/ DoGameRemove
  \/ DoGameFindById
  \/ Return

SpecEntities == Init /\ [][NextEntities]_vars

(* The library and game repositories, the removals and the lookups, on a
   database that already holds a player and a user *)
NextLibrary ==
  \/ DoLibraryStore
  \/ DoLibraryRemove
  \/ DoLibraryFindById
  \/ DolibraryExisted
  \/ DoGameStore
  \/ DoGameRemove
  \/ DoGameFindById
  \/ DoUserRemove
  \/ DoUserFindById
  \/ DoPlayerFindById
  \/ Return

SpecLibrary == InitSeeded /\ [][NextLibrary]_vars

----------------------------------------------------------------------------
(* DbLibraryRepo.FindById statement by statement, with another caller's
   writes between its statements *)

(* The libraries row and the user; the method may return here *)
TornBegin ==
  /\ Ready
  /\ hyd = Idle
  /\ \E id \in Ids(serial.libraries) :
       LET h == LibraryFindHead(libraries, users, players, id, NoFail)
       IN /\ pre' = Tables
          /\ IF h.done
             THEN /\ hyd' = Idle
                  /\ last' = [op |-> "LibraryFindById", arg |-> id, fail |-> NoFail,
                              val |-> h.ent, err |-> h.err, panic |-> FALSE,
                              cur |-> h.cur, lost |-> FALSE, seen |-> <<>>]
             ELSE /\ hyd' = [pc |-> "query", id |-> id, library |-> h.ent, cur |-> h.cur]
                  /\ last' = last
  /\ UNCHANGED <<players, users, libraries, games, serial, stored>>

(* The games id-list query: the cursor holds the ids listed now *)
TornQuery ==
  /\ hyd.pc = "query"
  /\ LET q == LibraryGamesQuery(games, hyd.library, NoFail)
     IN hyd' = [pc |-> "fetch", id |-> hyd.id, library |-> q.ent, row |-> q.row,
                pos |-> 1, cur |-> AddCursors(hyd.cur, q.cur), lost |-> FALSE,
                seen |-> <<>>]
  /\ UNCHANGED <<players, users, libraries, games, serial, stored, pre, last>>

(* One turn of the loop against the games table as it is now.  seen keeps,
   for every game appended, the games rows of that id at that moment. *)
TornFetch ==
  /\ hyd.pc = "fetch"
  /\ LET st == LibraryFetchStep(games, hyd.library, hyd.row, hyd.pos, NoFail)
         c == AddCursors(hyd.cur, st.cur)
     IN IF st.done
        THEN /\ hyd' = Idle
             /\ last' = [op |-> "LibraryFindById", arg |-> hyd.id, fail |-> NoFail,
                         val |-> st.ent, err |-> st.err, panic |-> FALSE, cur |-> c,
                         lost |-> hyd.lost, seen |-> hyd.seen]
        ELSE /\ hyd' = [hyd EXCEPT !.library = st.ent, !.pos = @ + 1, !.cur = c,
                          !.seen = Append(@, SelectSeq(games,
                                     LAMBDA r : r.id = hyd.row.Rows[hyd.pos].id))]
             /\ last' = last
  /\ UNCHANGED <<players, users, libraries, games, serial, stored, pre>>

(* The cursor of the running FindById still has game id to fetch *)
Pending(id) ==
  /\ hyd.pc = "fetch"
  /\ \E k \in hyd.pos..Len(hyd.row.Rows) : hyd.row.Rows[k].id = id

(* A write by another caller.  It is taken while the observed caller holds
   no unread result; pre follows the tables unless a FindById is running,
   when it keeps the tables that FindById started from. *)
OtherWrote ==
  /\ last' = last
  /\ pre' = IF hyd = Idle THEN Tables' ELSE pre

OtherGameRemove ==
  /\ Ready
  /\ \E id \in Ids(serial.games) :
       /\ GameRemoveBy(id, NoFail)
       /\ hyd' = IF Pending(id) /\ (\E i \in DOMAIN games : games[i].id = id)
                 THEN [hyd EXCEPT !.lost = TRUE] ELSE hyd
       /\ OtherWrote

OtherGameStore ==
  /\ Ready
  /\ \E lib \in Ids(serial.libraries) \ {0}, d \in GameData :
       /\ GameStoreBy(GameInput(lib, d), NoFail)
       /\ hyd' = hyd
       /\ OtherWrote

OtherLibraryStore ==
  /\ Ready
  /\ \E uid \in Ids(serial.users) :
       /\ LibraryStoreBy(uid, NoFail)
       /\ hyd' = hyd
       /\ OtherWrote

OtherLibraryRemove ==
  /\ Ready
  /\ \E id \in Ids(serial.libraries) :
       /\ LibraryRemoveBy(id, NoFail)
       /\ hyd' = hyd
       /\ OtherWrote

NextTorn ==
  \/ TornBegin
  \/ TornQuery
  \/ TornFetch
  \/ OtherGameRemove
  \/ OtherGameStore
  \/ OtherLibraryStore
  \/ OtherLibraryRemove
  \/ Return

SpecTorn == InitSeeded /\ [][NextTorn]_vars

----------------------------------------------------------------------------
(* Properties of the sequential callers *)

(* Table t holds a row with this id *)
HasId(t, id) == \E i \in DOMAIN t : t[i].id = id

(* The rows of players named name *)
Named(pl, name) == {i \in DOMAIN pl : pl[i].player_name = name}

(* No players row of t carries both the id and the name of player p *)
NoMatch(pl, p) == ~\E i \in DOMAIN pl : pl[i].id = p.Id /\ pl[i].player_name = p.Name

(* The last call returned to its caller, with a nil error *)
Succeeded == ~last.panic /\ last.err = Nil

(* C1: storing a User whose Player reference matches no players row (by id
   and name together) never succeeds and leaves all four tables as they
   were; whenever the driver answers the validation query, the call returns
   id 0 and the validation error. *)
C1_StoreRejectsMismatch ==
  (last.op = "UserStore" /\ NoMatch(pre.players, last.arg.Player)) =>
     /\ Tables = pre
     /\ ~Succeeded
     /\ ~FailsAt(last.fail, "NameMatchesId.Query") =>
          (~last.panic /\ last.err = MismatchErr /\ last.val = 0)

(* C1's case: the referenced id exists under another name, and the call
   returned the validation error *)
C1_Witness ==
  /\ last.op = "UserStore"
  /\ NoMatch(pre.players, last.arg.Player)
  /\ HasId(pre.players, last.arg.Player.Id)
  /\ last.err = MismatchErr

(* C2: no two players rows carry the same name, whatever sequence of calls
   was made; and after a Store(p) that returned nil there is exactly one
   row named p.Name -- also when p was stored before. *)
C2_PlayerNamesUnique ==
  /\ \A i, j \in DOMAIN players :
       players[i].player_name = players[j].player_name => i = j
  /\ (last.op = "PlayerStore" /\ Succeeded) =>
       Cardinality(Named(players, last.arg.Name)) = 1
  /\ (last.op = "UserStore" /\ Succeeded) =>
       Cardinality(Named(players, last.arg.Player.Name)) = 1

(* C2's case: a second Store of a name already stored *)
C2_Witness ==
  /\ last.op = "PlayerStore"
  /\ Succeeded
  /\ Named(pre.players, last.arg.Name) # {}
  /\ Cardinality(Named(players, last.arg.Name)) = 1

(* What was handed to the successful Store that returned this id, unless
   the row was changed or deleted since *)
StoredAs(kind, id) == {e.ent : e \in {x \in stored : x.kind = kind /\ x.id = id}}

(* C7: FindById after Store round-trips the scalar fields.  For a Game and
   a User stored under id (and not modified since), FindById(id) succeeds
   whenever the driver does not fail, and whenever it succeeds it returns
   the Id asked for and the fields given to Store (for a User, the nested
   Player too).  For a players row (id, name), FindById(id) returns
   Player{id, name}. *)
C7_RoundTrip ==
  /\ last.op = "GameFindById" =>
       \A g \in StoredAs("game", last.arg) :
         /\ last.fail = NoFail => Succeeded
         /\ Succeeded => last.val = [g EXCEPT !.Id = last.arg]
  /\ last.op = "UserFindById" =>
       \A u \in StoredAs("user", last.arg) :
         /\ last.fail = NoFail => Succeeded
         /\ Succeeded => last.val = [u EXCEPT !.Id = last.arg]
  /\ last.op = "PlayerFindById" =>
       \A i \in DOMAIN pre.players :
         pre.players[i].id = last.arg =>
           /\ last.fail = NoFail => Succeeded
           /\ Succeeded => last.val = [Id |-> last.arg,
                                       Name |-> pre.players[i].player_name]

(* C7's case: a stored Game with a non-empty Value is read back *)
C7_Witness ==
  /\ last.op = "GameFindById"
  /\ Succeeded
  /\ StoredAs("game", last.arg) # {}
  /\ last.val.Value # <<>>

(* C7's case for a User: read back with its Player *)
C7_WitnessUser ==
  /\ last.op = "UserFindById"
  /\ Succeeded
  /\ StoredAs("user", last.arg) # {}

FindOps == {"PlayerFindById", "UserFindById", "GameFindById", "LibraryFindById"}

(* The zero value of the entity a FindById returns *)
ZeroOf(op) ==
  CASE op = "PlayerFindById" -> ZeroPlayer
    [] op = "UserFindById" -> ZeroUser
    [] op = "GameFindById" -> ZeroGame
    [] op = "LibraryFindById" -> ZeroLibrary

(* The table a FindById or a Remove looks its id up in, as the call found it *)
TableOf(op) ==
  CASE op \in {"PlayerFindById"} -> pre.players
    [] op \in {"UserFindById", "UserRemove"} -> pre.users
    [] op \in {"GameFindById", "GameRemove"} -> pre.games
    [] op \in {"LibraryFindById", "LibraryRemove"} -> pre.libraries

(* C3: every FindById (Player, User, Game, Library) returns either an
   entity with a nil error or the zero-value entity with a non-nil error:
   a non-nil error comes with the zero value. *)
C3_ErrorMeansZero ==
  (last.op \in FindOps /\ last.err # Nil) => last.val = ZeroOf(last.op)

(* C4: FindById of an id that has no row in the entity's table returns a
   non-nil error, for Player, User, Game and Library, whatever the other
   tables hold. *)
C4_NotFound ==
  (last.op \in FindOps /\ ~HasId(TableOf(last.op), last.arg)) =>
     (~last.panic /\ last.err # Nil)

(* C4's case: a Library id without a row is asked for while users has rows
   and the driver does not fail, so the error is the empty cursor's *)
C4_Witness ==
  /\ last.op = "LibraryFindById"
  /\ ~HasId(pre.libraries, last.arg)
  /\ pre.users # <<>>
  /\ last.fail = NoFail
  /\ last.err = RowsClosedErr

(* C5: when a repository method returns, with or without an error, every
   cursor it opened has been closed, and Close was called on no cursor of a
   failed Query. *)
C5_CursorsReleased ==
  last.op # "none" =>
     (last.cur.opened = last.cur.closed /\ last.cur.closedInvalid = 0)

(* The games rows of library id, in heap order, as entities *)
AsGame(r) ==
  [Id |-> r.id, LibraryId |-> r.library_id, Name |-> r.game_name,
   Producer |-> r.producer, Value |-> r.value]

GamesOf(gm, id) ==
  LET rows == SelectSeq(gm, LAMBDA r : r.library_id = id)
  IN [i \in DOMAIN rows |-> AsGame(rows[i])]

(* The libraries row id exists and its user and that user's player do *)
Resolvable(t, id) ==
  \E i \in DOMAIN t.libraries, j \in DOMAIN t.users :
    /\ t.libraries[i].id = id
    /\ t.users[j].id = t.libraries[i].user_id
    /\ HasId(t.players, t.users[j].player_id)

(* C6: a FindById(L) that succeeds returns in Games exactly the games rows
   with library_id = L, each once, in the order of the table (insertion
   order); and for a library with a resolvable user FindById succeeds
   whenever the driver does not fail -- with an empty Games when the library
   has no games rows. *)
C6_GamesInOrder ==
  last.op = "LibraryFindById" =>
     /\ Succeeded => (last.val.Id = last.arg /\ last.val.Games = GamesOf(pre.games, last.arg))
     /\ (Resolvable(pre, last.arg) /\ last.fail = NoFail) => Succeeded

(* C6's case: a library hydrated with two games *)
C6_Witness ==
  /\ last.op = "LibraryFindById"
  /\ Succeeded
  /\ Len(last.val.Games) = 2
  /\ last.val.Games[1].Id < last.val.Games[2].Id

(* C6's case of the empty library *)
C6_WitnessEmpty ==
  /\ last.op = "LibraryFindById"
  /\ Succeeded
  /\ pre.games # <<>>
  /\ last.val.Games = <<>>

RemoveOps == {"UserRemove", "LibraryRemove", "GameRemove"}

(* C8: Remove of an id that has no row (User, Library, Game) leaves every
   table unchanged and returns exactly what the driver returned for the
   DELETE: nil unless the statement itself failed.  A Remove that returned
   nil leaves no row of that id, so a second Remove meets this case and
   changes nothing. *)
C8_RemoveAbsent ==
  last.op \in RemoveOps =>
     /\ ~HasId(TableOf(last.op), last.arg) =>
          /\ Tables = pre
          /\ ~last.panic
          /\ last.err = (IF last.fail = NoFail THEN Nil ELSE DriverErr)
     /\ Succeeded =>
          /\ ~HasId(users, last.arg) \/ last.op # "UserRemove"
          /\ ~HasId(libraries, last.arg) \/ last.op # "LibraryRemove"
          /\ ~HasId(games, last.arg) \/ last.op # "GameRemove"

(* C8's case: an id that was issued and deleted is removed again *)
C8_Witness ==
  /\ last.op = "GameRemove"
  /\ last.arg \in 1..serial.games
  /\ ~HasId(pre.games, last.arg)
  /\ Succeeded

(* C10: Remove(l) of a Library deletes at most the libraries row l.Id and
   leaves games, users and players as they were; every games row of that
   library is still there and GameRepo.FindById still returns it. *)
C10_NoCascade ==
  last.op = "LibraryRemove" =>
     /\ players = pre.players /\ users = pre.users /\ games = pre.games
     /\ \A i \in DOMAIN libraries : HasId(pre.libraries, libraries[i].id)
     /\ \A i \in DOMAIN pre.libraries :
          pre.libraries[i].id # last.arg => HasId(libraries, pre.libraries[i].id)
     /\ \A i \in DOMAIN pre.games :
          pre.games[i].library_id = last.arg =>
            LET f == GameFindById(games, pre.games[i].id, NoFail, 1)
            IN f.err = Nil /\ f.ent = AsGame(pre.games[i])

(* C10's case: a library that had games is deleted *)
C10_Witness ==
  /\ last.op = "LibraryRemove"
  /\ Succeeded
  /\ HasId(pre.libraries, last.arg)
  /\ ~HasId(libraries, last.arg)
  /\ \E i \in DOMAIN games : games[i].library_id = last.arg

----------------------------------------------------------------------------
(* Properties of FindById interleaved with another caller *)

(* C9: a FindById whose listed game was deleted by another caller before
   its fetch returns a non-nil error; and a FindById that returns nil holds
   only Games that were each, at the moment of their fetch, a games row of
   that id with library_id = L. *)
C9_TornRead ==
  (last.op = "LibraryFindById" /\ "lost" \in DOMAIN last) =>
     /\ last.lost => last.err # Nil
     /\ Succeeded =>
          /\ Len(last.seen) = Len(last.val.Games)
          /\ \A i \in DOMAIN last.seen :
               /\ Len(last.seen[i]) = 1
               /\ last.seen[i][1].library_id = last.arg
               /\ AsGame(last.seen[i][1]) = last.val.Games[i]

(* C9's case: a listed game was deleted before its fetch *)
C9_Witness ==
  /\ last.op = "LibraryFindById"
  /\ "lost" \in DOMAIN last
  /\ last.lost
  /\ last.err = RowsClosedErr

(* C9's case of a FindById that succeeds beside another caller's writes *)
C9_WitnessSucceeded ==
  /\ last.op = "LibraryFindById"
  /\ "lost" \in DOMAIN last
  /\ Succeeded
  /\ Len(last.val.Games) = 2
  /\ games # pre.games

====
